---- MODULE Spec2Model ----
(***************************************************************************)
(* Model of the symbol-table builder of src/analyzer/indexer.rs            *)
(* (struct Indexer): table, enum and table-group indexing and the          *)
(* read-only queries on the index.                                         *)
(***************************************************************************)
EXTENDS Integers, Sequences, FiniteSets, TLC

VARIABLES
  table_group_map,  \* group name -> set of <<schema, table>>
  schema_map,       \* schema name -> [table_map, enum_map]
  table_alias_map,  \* alias -> <<schema, table>>
  hist,             \* the indexing calls made so far: [op, arg, result]
  queries,          \* the read-only queries made so far: [op, arg, result]
  aborted           \* TRUE once a query has panicked

vars == <<table_group_map, schema_map, table_alias_map, hist, queries, aborted>>

----------------------------------------------------------------------------
(* Bounds of the model and the universes the inputs are drawn from.        *)

MaxTables == 2
MaxCols == 2
MaxEnums == 2
MaxVals == 2
MaxGroups == 1
MaxItems == 2
MaxFields == 2
MaxCalls == 2
MaxBuild == 1
MaxQueries == 2
MaxLookups == 1

BSeq(S, n) == UNION {[1..k -> S] : k \in 0..n}

\* Option<T>: None is the empty sequence, Some(x) the one-element sequence.
None == <<>>
Some(x) == <<x>>

DEFAULT_SCHEMA == "public"

OtherSchemas == {"s1"}
TableNames == {"t", "u"}
AliasNames == {"t", "u"}
ColNames == {"id"}
EnumNames == {"e"}
ValNames == {"v"}
GroupNames == {"g"}
FieldNames == {"id", "ghost"}

OptSchemas == {None} \cup {Some(s) : s \in OtherSchemas}
OptSchemasAll == OptSchemas \cup {Some(DEFAULT_SCHEMA)}

TableBlocks ==
  [schema : OptSchemas, name : TableNames,
   alias : {None} \cup {Some(a) : a \in AliasNames},
   cols : BSeq(ColNames, MaxCols)]

EnumBlocks ==
  [schema : OptSchemas, name : EnumNames, values : BSeq(ValNames, MaxVals)]

GroupItems == [schema : OptSchemasAll, ident_alias : TableNames \cup AliasNames]

TableGroupBlocks == [ident : GroupNames, items : BSeq(GroupItems, MaxItems)]

----------------------------------------------------------------------------
(* BTreeMap as a function with a finite domain.                            *)

EmptyMap == [k \in {} |-> {}]

Insert(m, k, v) == [x \in (DOMAIN m) \cup {k} |-> IF x = k THEN v ELSE m[x]]

\* Mutant of unwrap_or_default: an omitted qualifier becomes the empty name.
unwrap_or_empty(schema) == IF schema = None THEN "" ELSE schema[1]

\* Option<Ident>.map(to_string).unwrap_or_else(DEFAULT_SCHEMA)
unwrap_or_default(schema) == IF schema = None THEN DEFAULT_SCHEMA ELSE schema[1]

IndexedSchemaBlock_default == [table_map |-> EmptyMap, enum_map |-> EmptyMap]

Indexer_default ==
  [table_group_map |-> EmptyMap, schema_map |-> EmptyMap, table_alias_map |-> EmptyMap]

\* the Indexer value held by the variables
self == [table_group_map |-> table_group_map, schema_map |-> schema_map,
         table_alias_map |-> table_alias_map]

----------------------------------------------------------------------------
(* Queries that never fail.                                                *)

contains_table(ix, schema, name) ==
  /\ schema \in DOMAIN ix.schema_map
  /\ name \in DOMAIN ix.schema_map[schema].table_map

contains_enum(ix, schema, name) ==
  /\ schema \in DOMAIN ix.schema_map
  /\ name \in DOMAIN ix.schema_map[schema].enum_map

resolve_alias(ix, table_alias) ==
  IF table_alias \in DOMAIN ix.table_alias_map
    THEN Some(ix.table_alias_map[table_alias])
    ELSE None

----------------------------------------------------------------------------
(* index_table                                                             *)

\* The scan of a declaration's column names (or enum values) into a set:
\* stops at the first name already in the set.
RECURSIVE scan_names(_, _, _)
scan_names(names, i, acc) ==
  IF i > Len(names) THEN [ok |-> TRUE, set |-> acc]
  ELSE IF names[i] \in acc THEN [ok |-> FALSE, set |-> acc]
  ELSE scan_names(names, i + 1, acc \cup {names[i]})

\* Mutant of index_one_table: the alias is registered before the columns are
\* scanned, so it stays registered when the scan fails.
index_one_table_alias_first(ix, table) ==
  LET schema == unwrap_or_default(table.schema)
      name == table.name
      scan == scan_names(table.cols, 1, {})
  IN  IF contains_table(ix, schema, name)
        THEN [ix |-> ix, result |-> "DuplicatedTableName"]
      ELSE IF ~scan.ok
        THEN [ix |-> [ix EXCEPT !.table_alias_map =
                        IF table.alias = None THEN @
                        ELSE Insert(@, table.alias[1], <<schema, name>>)],
              result |-> "DuplicatedColumnName"]
      ELSE IF schema \in DOMAIN ix.schema_map
        THEN \* Some(index_block): the table is inserted, then the alias checked
          LET sm == [ix.schema_map EXCEPT
                       ![schema].table_map = Insert(@, name, scan.set)]
          IN  IF table.alias = None
                THEN [ix |-> [ix EXCEPT !.schema_map = sm], result |-> "Ok"]
              ELSE IF table.alias[1] \in DOMAIN ix.table_alias_map
                THEN [ix |-> [ix EXCEPT !.schema_map = sm],
                      result |-> "DuplicatedAlias"]
              ELSE [ix |-> [ix EXCEPT !.schema_map = sm,
                              !.table_alias_map =
                                 Insert(@, table.alias[1], <<schema, name>>)],
                    result |-> "Ok"]
        ELSE \* None: a new schema block; the alias is inserted unchecked
          LET block == [IndexedSchemaBlock_default EXCEPT
                          !.table_map = Insert(@, name, scan.set)]
              am == IF table.alias # None
                      THEN Insert(ix.table_alias_map, table.alias[1],
                                  <<schema, name>>)
                      ELSE ix.table_alias_map
          IN  [ix |-> [ix EXCEPT !.schema_map = Insert(@, schema, block),
                                 !.table_alias_map = am],
               result |-> "Ok"]

\* Mutant of index_one_table: a table of a known schema is stored in a fresh
\* schema block instead of the existing one.
index_one_table_fresh_block(ix, table) ==
  LET schema == unwrap_or_default(table.schema)
      name == table.name
      scan == scan_names(table.cols, 1, {})
  IN  IF contains_table(ix, schema, name)
        THEN [ix |-> ix, result |-> "DuplicatedTableName"]
      ELSE IF ~scan.ok
        THEN [ix |-> ix, result |-> "DuplicatedColumnName"]
      ELSE IF schema \in DOMAIN ix.schema_map
        THEN \* Some(index_block): the table is inserted, then the alias checked
          LET sm == [ix.schema_map EXCEPT
                       ![schema] = [IndexedSchemaBlock_default EXCEPT
                                      !.table_map = Insert(@, name, scan.set)]]
          IN  IF table.alias = None
                THEN [ix |-> [ix EXCEPT !.schema_map = sm], result |-> "Ok"]
              ELSE IF table.alias[1] \in DOMAIN ix.table_alias_map
                THEN [ix |-> [ix EXCEPT !.schema_map = sm],
                      result |-> "DuplicatedAlias"]
              ELSE [ix |-> [ix EXCEPT !.schema_map = sm,
                              !.table_alias_map =
                                 Insert(@, table.alias[1], <<schema, name>>)],
                    result |-> "Ok"]
        ELSE \* None: a new schema block; the alias is inserted unchecked
          LET block == [IndexedSchemaBlock_default EXCEPT
                          !.table_map = Insert(@, name, scan.set)]
              am == IF table.alias # None
                      THEN Insert(ix.table_alias_map, table.alias[1],
                                  <<schema, name>>)
                      ELSE ix.table_alias_map
          IN  [ix |-> [ix EXCEPT !.schema_map = Insert(@, schema, block),
                                 !.table_alias_map = am],
               result |-> "Ok"]

\* One iteration of the loop of index_table.
index_one_table(ix, table) ==
  LET schema == unwrap_or_default(table.schema)
      name == table.name
      scan == scan_names(table.cols, 1, {})
  IN  IF contains_table(ix, schema, name)
        THEN [ix |-> ix, result |-> "DuplicatedTableName"]
      ELSE IF ~scan.ok
        THEN [ix |-> ix, result |-> "DuplicatedColumnName"]
      ELSE IF schema \in DOMAIN ix.schema_map
        THEN \* Some(index_block): the table is inserted, then the alias checked
          LET sm == [ix.schema_map EXCEPT
                       ![schema].table_map = Insert(@, name, scan.set)]
          IN  IF table.alias = None
                THEN [ix |-> [ix EXCEPT !.schema_map = sm], result |-> "Ok"]
              ELSE IF table.alias[1] \in DOMAIN ix.table_alias_map
                THEN [ix |-> [ix EXCEPT !.schema_map = sm],
                      result |-> "DuplicatedAlias"]
              ELSE [ix |-> [ix EXCEPT !.schema_map = sm,
                              !.table_alias_map =
                                 Insert(@, table.alias[1], <<schema, name>>)],
                    result |-> "Ok"]
        ELSE \* None: a new schema block; the alias is inserted unchecked
          LET block == [IndexedSchemaBlock_default EXCEPT
                          !.table_map = Insert(@, name, scan.set)]
              am == IF table.alias # None
                      THEN Insert(ix.table_alias_map, table.alias[1],
                                  <<schema, name>>)
                      ELSE ix.table_alias_map
          IN  [ix |-> [ix EXCEPT !.schema_map = Insert(@, schema, block),
                                 !.table_alias_map = am],
               result |-> "Ok"]

RECURSIVE index_table_from(_, _, _)
index_table_from(ix, tables, i) ==
  IF i > Len(tables) THEN [ix |-> ix, result |-> "Ok"]
  ELSE LET r == index_one_table(ix, tables[i])
       IN  IF r.result # "Ok" THEN r ELSE index_table_from(r.ix, tables, i + 1)

index_table(ix, tables) == index_table_from(ix, tables, 1)

----------------------------------------------------------------------------
(* index_enums                                                             *)

index_one_enum(ix, enum) ==
  LET schema == unwrap_or_default(enum.schema)
      name == enum.name
      scan == scan_names(enum.values, 1, {})
  IN  IF contains_enum(ix, schema, name)
        THEN [ix |-> ix, result |-> "DuplicatedEnumName"]
      ELSE IF ~scan.ok
        THEN [ix |-> ix, result |-> "DuplicatedEnumValue"]
      ELSE IF schema \in DOMAIN ix.schema_map
        THEN [ix |-> [ix EXCEPT !.schema_map[schema].enum_map =
                                   Insert(@, name, scan.set)],
              result |-> "Ok"]
        ELSE [ix |-> [ix EXCEPT !.schema_map =
                         Insert(@, schema,
                                [IndexedSchemaBlock_default EXCEPT
                                   !.enum_map = Insert(@, name, scan.set)])],
              result |-> "Ok"]

RECURSIVE index_enums_from(_, _, _)
index_enums_from(ix, enums, i) ==
  IF i > Len(enums) THEN [ix |-> ix, result |-> "Ok"]
  ELSE LET r == index_one_enum(ix, enums[i])
       IN  IF r.result # "Ok" THEN r ELSE index_enums_from(r.ix, enums, i + 1)

index_enums(ix, enums) == index_enums_from(ix, enums, 1)

----------------------------------------------------------------------------
(* index_table_groups                                                      *)

\* Mutant of resolve_group_item: the default-schema lookup is not checked.
resolve_group_item_unchecked(ix, group_item) ==
  IF group_item.schema # None
    THEN [ok |-> TRUE, ident |-> <<group_item.schema[1], group_item.ident_alias>>]
  ELSE IF resolve_alias(ix, group_item.ident_alias) # None
    THEN [ok |-> TRUE, ident |-> resolve_alias(ix, group_item.ident_alias)[1]]
  ELSE [ok |-> TRUE, ident |-> <<DEFAULT_SCHEMA, group_item.ident_alias>>]

\* Mutant of resolve_group_item: a registered alias is accepted but stored
\* as written, under the default schema.
resolve_group_item_alias_kept(ix, group_item) ==
  IF group_item.schema # None
    THEN [ok |-> TRUE, ident |-> <<group_item.schema[1], group_item.ident_alias>>]
  ELSE IF resolve_alias(ix, group_item.ident_alias) # None
    THEN [ok |-> TRUE, ident |-> <<DEFAULT_SCHEMA, group_item.ident_alias>>]
  ELSE LET has_table == contains_table(ix, DEFAULT_SCHEMA, group_item.ident_alias)
       IN  [ok |-> has_table, ident |-> <<DEFAULT_SCHEMA, group_item.ident_alias>>]

\* The resolution of one group item to a <<schema, table>> pair
\* (the match on group_item.schema).
resolve_group_item(ix, group_item) ==
  IF group_item.schema # None
    THEN [ok |-> TRUE, ident |-> <<group_item.schema[1], group_item.ident_alias>>]
  ELSE IF resolve_alias(ix, group_item.ident_alias) # None
    THEN [ok |-> TRUE, ident |-> resolve_alias(ix, group_item.ident_alias)[1]]
  ELSE LET has_table == contains_table(ix, DEFAULT_SCHEMA, group_item.ident_alias)
       IN  [ok |-> has_table, ident |-> <<DEFAULT_SCHEMA, group_item.ident_alias>>]

\* The loop over the items of one group.
RECURSIVE index_group_items(_, _, _, _)
index_group_items(ix, items, i, indexed_items) ==
  IF i > Len(items) THEN [result |-> "Ok", set |-> indexed_items]
  ELSE LET r == resolve_group_item(ix, items[i])
       IN  IF ~r.ok THEN [result |-> "TableNotFound", set |-> indexed_items]
           ELSE IF r.ident \in indexed_items
             THEN [result |-> "DuplicatedTableGroupItem", set |-> indexed_items]
           ELSE index_group_items(ix, items, i + 1, indexed_items \cup {r.ident})

\* One iteration of the loop of index_table_groups.
index_one_group(ix, table_group) ==
  IF table_group.ident \in DOMAIN ix.table_group_map
    THEN [ix |-> ix, result |-> "DuplicatedTableGroupName"]
  ELSE LET r == index_group_items(ix, table_group.items, 1, {})
       IN  IF r.result # "Ok" THEN [ix |-> ix, result |-> r.result]
           ELSE [ix |-> [ix EXCEPT !.table_group_map =
                            Insert(@, table_group.ident, r.set)],
                 result |-> "Ok"]

RECURSIVE index_table_groups_from(_, _, _)
index_table_groups_from(ix, table_groups, i) ==
  IF i > Len(table_groups) THEN [ix |-> ix, result |-> "Ok"]
  ELSE LET r == index_one_group(ix, table_groups[i])
       IN  IF r.result # "Ok" THEN r
           ELSE index_table_groups_from(r.ix, table_groups, i + 1)

index_table_groups(ix, table_groups) == index_table_groups_from(ix, table_groups, 1)

----------------------------------------------------------------------------
(* Lookup queries.  A panic! is the result "panic: ..." and ends the run.  *)

Panics == {"panic: schema_not_found", "panic: enum_not_found",
           "panic: value_not_found", "panic: table_not_found",
           "panic: column_not_found"}

lookup_enum_values(ix, schema, enum_name, values) ==
  LET s == unwrap_or_default(schema)
  IN  IF s \notin DOMAIN ix.schema_map THEN "panic: schema_not_found"
      ELSE IF enum_name \notin DOMAIN ix.schema_map[s].enum_map
        THEN "panic: enum_not_found"
      ELSE IF \E i \in DOMAIN values :
                 values[i] \notin ix.schema_map[s].enum_map[enum_name]
        THEN "panic: value_not_found"
      ELSE "Ok"

lookup_table_fields(ix, schema, table, fields) ==
  LET s == unwrap_or_default(schema)
  IN  IF s \notin DOMAIN ix.schema_map THEN "panic: table_not_found"
      ELSE IF table \notin DOMAIN ix.schema_map[s].table_map
        THEN "panic: table_not_found"
      ELSE LET col_set == ix.schema_map[s].table_map[table]
               unlisted_fields == SelectSeq(fields, LAMBDA v : v \notin col_set)
           IN  IF unlisted_fields = <<>> THEN "Ok" ELSE "panic: column_not_found"

----------------------------------------------------------------------------
(* resolve_ref_alias                                                       *)

Ident(span_range, text) ==
  [span_range |-> span_range, raw |-> text, to_string |-> text]

resolve_ref_alias(ix, ident) ==
  LET r == resolve_alias(ix, ident.table.to_string)
  IN  IF r # None
        THEN [span_range |-> ident.span_range,
              schema |-> Some(Ident(<<0, 0>>, r[1][1])),
              table |-> Ident(ident.table.span_range, r[1][2]),
              compositions |-> ident.compositions]
        ELSE ident

SchemaSpans == {<<0, 0>>, <<1, 3>>}

RefIdents ==
  [span_range : {<<1, 9>>},
   schema : {None} \cup {Some(Ident(sp, s)) :
                           sp \in SchemaSpans, s \in {DEFAULT_SCHEMA} \cup OtherSchemas},
   table : {Ident(<<4, 5>>, t) : t \in TableNames \cup AliasNames},
   compositions : {<<>>, <<Ident(<<7, 9>>, "id")>>}]

----------------------------------------------------------------------------
(* The state machine.                                                      *)

Init ==
  /\ table_group_map = Indexer_default.table_group_map
  /\ schema_map = Indexer_default.schema_map
  /\ table_alias_map = Indexer_default.table_alias_map
  /\ hist = <<>>
  /\ queries = <<>>
  /\ aborted = FALSE

Store(r, op, arg) ==
  /\ table_group_map' = r.ix.table_group_map
  /\ schema_map' = r.ix.schema_map
  /\ table_alias_map' = r.ix.table_alias_map
  /\ hist' = Append(hist, [op |-> op, arg |-> arg, result |-> r.result])
  /\ UNCHANGED <<queries, aborted>>

IndexTableCall(limit) ==
  /\ ~aborted /\ queries = <<>> /\ Len(hist) < limit
  /\ \E tables \in BSeq(TableBlocks, MaxTables) :
       Store(index_table(self, tables), "index_table", tables)

IndexEnumsCall(limit) ==
  /\ ~aborted /\ queries = <<>> /\ Len(hist) < limit
  /\ \E enums \in BSeq(EnumBlocks, MaxEnums) :
       Store(index_enums(self, enums), "index_enums", enums)

IndexTableGroupsCall(limit) ==
  /\ ~aborted /\ queries = <<>> /\ Len(hist) < limit
  /\ \E table_groups \in BSeq(TableGroupBlocks, MaxGroups) :
       Store(index_table_groups(self, table_groups), "index_table_groups",
             table_groups)

Answer(op, arg, result, panicked) ==
  /\ queries' = Append(queries, [op |-> op, arg |-> arg, result |-> result])
  /\ aborted' = panicked
  /\ UNCHANGED <<table_group_map, schema_map, table_alias_map, hist>>

LookupEnumValuesCall ==
  /\ ~aborted /\ Len(queries) < MaxLookups
  /\ \E schema \in OptSchemasAll, enum_name \in EnumNames \cup {"ghost"},
        values \in BSeq(ValNames \cup {"ghost"}, MaxFields) :
       Answer("lookup_enum_values",
              [schema |-> schema, enum_name |-> enum_name, values |-> values],
              lookup_enum_values(self, schema, enum_name, values),
              lookup_enum_values(self, schema, enum_name, values) \in Panics)

LookupTableFieldsCall ==
  /\ ~aborted /\ Len(queries) < MaxLookups
  /\ \E schema \in OptSchemasAll, table \in TableNames,
        fields \in BSeq(FieldNames, MaxFields) :
       Answer("lookup_table_fields",
              [schema |-> schema, table |-> table, fields |-> fields],
              lookup_table_fields(self, schema, table, fields),
              lookup_table_fields(self, schema, table, fields) \in Panics)

ResolveRefAliasCall ==
  /\ ~aborted /\ Len(queries) < MaxQueries
  /\ \E ident \in RefIdents :
       Answer("resolve_ref_alias", ident, resolve_ref_alias(self, ident), FALSE)

\* The indexing pass: any sequence of indexing calls.
Next ==
  \/ IndexTableCall(MaxCalls)
  \/ IndexEnumsCall(MaxCalls)
  \/ IndexTableGroupsCall(MaxCalls)

Spec == Init /\ [][Next]_vars

\* One indexing call, then lookups.
NextLookup ==
  \/ IndexTableCall(MaxBuild)
  \/ IndexEnumsCall(MaxBuild)
  \/ LookupEnumValuesCall
  \/ LookupTableFieldsCall

SpecLookup == Init /\ [][NextLookup]_vars

\* One index_table call, then resolve_ref_alias queries.
NextResolve ==
  \/ IndexTableCall(MaxBuild)
  \/ ResolveRefAliasCall

SpecResolve == Init /\ [][NextResolve]_vars

----------------------------------------------------------------------------
(* Vocabulary of the properties.                                           *)

\* the schema a declaration is in: an omitted qualifier is the default schema
SchemaOf(opt) == IF opt = None THEN DEFAULT_SCHEMA ELSE opt[1]

KeyOf(decl) == <<SchemaOf(decl.schema), decl.name>>

NoRepeat(seq) == \A i, j \in DOMAIN seq : i # j => seq[i] # seq[j]

NoDupTables(tables) ==
  /\ \A i, j \in DOMAIN tables : i # j =>
       /\ KeyOf(tables[i]) # KeyOf(tables[j])
       /\ tables[i].alias # None => tables[i].alias # tables[j].alias
  /\ \A i \in DOMAIN tables : NoRepeat(tables[i].cols)

NoDupEnums(enums) ==
  /\ \A i, j \in DOMAIN enums : i # j => KeyOf(enums[i]) # KeyOf(enums[j])
  /\ \A i \in DOMAIN enums : NoRepeat(enums[i].values)

\* the declarations passed to the calls of one operation, in call order
RECURSIVE ArgsOf(_, _)
ArgsOf(op, n) ==
  IF n = 0 THEN <<>>
  ELSE ArgsOf(op, n - 1) \o (IF hist[n].op = op THEN hist[n].arg ELSE <<>>)

Reorderings(seq) ==
  LET n == Len(seq)
      bij == {f \in [1..n -> 1..n] : \A a, b \in 1..n : a # b => f[a] # f[b]}
  IN  {[i \in 1..n |-> seq[f[i]]] : f \in bij}

LastCall == hist[Len(hist)]

----------------------------------------------------------------------------
\* C1: an index_table call on a fresh index whose declarations repeat an
\* alias (and repeat no table or column name) fails with DuplicatedAlias.
C1_DuplicatedAliasRejected ==
  (/\ Len(hist) = 1
   /\ hist[1].op = "index_table"
   /\ \A i, j \in DOMAIN hist[1].arg : i # j =>
        KeyOf(hist[1].arg[i]) # KeyOf(hist[1].arg[j])
   /\ \A i \in DOMAIN hist[1].arg : NoRepeat(hist[1].arg[i].cols)
   /\ \E i, j \in DOMAIN hist[1].arg :
        i # j /\ hist[1].arg[i].alias # None
              /\ hist[1].arg[i].alias = hist[1].arg[j].alias)
  => hist[1].result = "DuplicatedAlias"

\* C2: when the declarations passed to index_table and index_enums repeat
\* no name at any scope, every such call succeeds and contains_table /
\* contains_enum hold of every declared (schema, name), an omitted schema
\* being the default schema.
C2_NoDuplicatesIndexed ==
  LET tables == ArgsOf("index_table", Len(hist))
      enums == ArgsOf("index_enums", Len(hist))
  IN  (NoDupTables(tables) /\ NoDupEnums(enums)) =>
        /\ \A k \in DOMAIN hist :
             hist[k].op \in {"index_table", "index_enums"} => hist[k].result = "Ok"
        /\ \A i \in DOMAIN tables :
             contains_table(self, SchemaOf(tables[i].schema), tables[i].name)
        /\ \A i \in DOMAIN enums :
             contains_enum(self, SchemaOf(enums[i].schema), enums[i].name)

C2_Witness ==
  /\ Len(hist) = 2
  /\ hist[1].op = "index_table" /\ Len(hist[1].arg) = 2
  /\ hist[2].op = "index_enums" /\ Len(hist[2].arg) = 2
  /\ NoDupTables(hist[1].arg) /\ NoDupEnums(hist[2].arg)
  /\ hist[1].arg[1].schema = None /\ hist[1].arg[2].schema # None
  /\ hist[2].arg[2].schema = None
  /\ contains_table(self, DEFAULT_SCHEMA, hist[1].arg[1].name)
  /\ contains_enum(self, DEFAULT_SCHEMA, hist[2].arg[2].name)

\* C3: no lookup query ends the process: every lookup answers Ok or an
\* error value.
C3_LookupFailuresRecoverable ==
  /\ ~aborted
  /\ \A i \in DOMAIN queries :
       queries[i].op \in {"lookup_enum_values", "lookup_table_fields"} =>
         queries[i].result \notin Panics

\* C4: after a successful index_table on a fresh index, a group whose two
\* items name one declared table directly and through its declared alias
\* fails with DuplicatedTableGroupItem.
C4_AliasAndDirectDuplicate ==
  (/\ Len(hist) = 2
   /\ hist[1].op = "index_table" /\ hist[1].result = "Ok"
   /\ hist[2].op = "index_table_groups" /\ Len(hist[2].arg) >= 1)
  => LET tables == hist[1].arg
         items == hist[2].arg[1].items
         Direct(d) ==
           {[schema |-> Some(SchemaOf(d.schema)), ident_alias |-> d.name]}
           \cup (IF /\ d.schema = None
                    /\ \A k \in DOMAIN tables : tables[k].alias # Some(d.name)
                   THEN {[schema |-> None, ident_alias |-> d.name]} ELSE {})
         ByAlias(d) == [schema |-> None, ident_alias |-> d.alias[1]]
     IN  \A i \in DOMAIN tables :
           (/\ tables[i].alias # None
            /\ Len(items) = 2
            /\ \E a, b \in 1..2 :
                 a # b /\ items[a] \in Direct(tables[i])
                       /\ items[b] = ByAlias(tables[i]))
           => hist[2].result = "DuplicatedTableGroupItem"

\* C5 as stated: a group call on a fresh group map whose first group's
\* first item names an identifier that is neither a registered alias nor a
\* default-schema table fails with TableNotFound and registers nothing.
C5_UnknownIdentifierFails ==
  (/\ hist # <<>>
   /\ LastCall.op = "index_table_groups"
   /\ \A k \in 1..(Len(hist) - 1) : hist[k].op # "index_table_groups"
   /\ Len(LastCall.arg) >= 1
   /\ Len(LastCall.arg[1].items) >= 1
   /\ LastCall.arg[1].items[1].ident_alias \notin DOMAIN table_alias_map
   /\ ~contains_table(self, DEFAULT_SCHEMA, LastCall.arg[1].items[1].ident_alias))
  => /\ LastCall.result = "TableNotFound"
     /\ table_group_map = EmptyMap

\* an item without schema qualifier that is neither a registered alias nor a
\* table of the default schema
DanglingItem(item) ==
  /\ item.schema = None
  /\ item.ident_alias \notin DOMAIN table_alias_map
  /\ ~contains_table(self, DEFAULT_SCHEMA, item.ident_alias)

\* C5 (amended): a group with an unqualified item that is neither a
\* registered alias nor a default-schema table makes index_table_groups
\* fail and is not registered; the failure is TableNotFound when that item
\* is the first item of the first group and the group's name is new.
C5_DanglingItemFails ==
  [][(Len(hist') = Len(hist) + 1 /\ hist'[Len(hist')].op = "index_table_groups")
     => LET call == hist'[Len(hist')]
            groups == call.arg
        IN  \A i \in DOMAIN groups :
              (\E k \in DOMAIN groups[i].items : DanglingItem(groups[i].items[k]))
              => /\ call.result \in {"TableNotFound", "DuplicatedTableGroupName",
                                     "DuplicatedTableGroupItem"}
                 /\ (\A j \in 1..(i - 1) : groups[j].ident # groups[i].ident)
                    => /\ (groups[i].ident \in DOMAIN table_group_map')
                            <=> (groups[i].ident \in DOMAIN table_group_map)
                       /\ groups[i].ident \in DOMAIN table_group_map
                            => table_group_map'[groups[i].ident]
                                 = table_group_map[groups[i].ident]
                 /\ (/\ i = 1
                     /\ groups[1].ident \notin DOMAIN table_group_map
                     /\ DanglingItem(groups[1].items[1]))
                    => call.result = "TableNotFound"]_vars

C5_Witness ==
  /\ Len(hist) = 2
  /\ hist[1].op = "index_table" /\ table_alias_map # EmptyMap
  /\ LastCall.op = "index_table_groups"
  /\ Len(LastCall.arg) = 1 /\ Len(LastCall.arg[1].items) = 2
  /\ ~DanglingItem(LastCall.arg[1].items[1])
  /\ DanglingItem(LastCall.arg[1].items[2])
  /\ LastCall.result = "TableNotFound"
  /\ LastCall.arg[1].ident \notin DOMAIN table_group_map

\* C6: resolve_ref_alias returns an identical copy of a reference whose
\* table is not a registered alias, and resolving its result again changes
\* nothing.
C6_ResolveTwiceIsOnce ==
  \A i \in DOMAIN queries :
    /\ queries[i].arg.table.to_string \notin DOMAIN table_alias_map
         => queries[i].result = queries[i].arg
    /\ (i > 1 /\ queries[i].arg = queries[i - 1].result)
         => queries[i].result = queries[i - 1].result

\* C7: an index_table call on a fresh index with declarations that repeat
\* no table, column or alias succeeds, and every reordering of its
\* declarations succeeds with the same schema map (tables and columns) and
\* the same alias map.
C7_OrderIndependent ==
  (Len(hist) = 1 /\ hist[1].op = "index_table" /\ NoDupTables(hist[1].arg))
  => /\ hist[1].result = "Ok"
     /\ \A perm \in Reorderings(hist[1].arg) :
          LET r == index_table(Indexer_default, perm)
          IN  /\ r.result = "Ok"
              /\ r.ix.schema_map = schema_map
              /\ r.ix.table_alias_map = table_alias_map

C7_Witness ==
  /\ Len(hist) = 1 /\ hist[1].op = "index_table"
  /\ Len(hist[1].arg) = 2 /\ NoDupTables(hist[1].arg)
  /\ hist[1].arg[1].schema = hist[1].arg[2].schema
  /\ hist[1].arg[1].alias # None /\ hist[1].arg[2].alias # None
  /\ hist[1].arg[1].cols # hist[1].arg[2].cols
  /\ hist[1].result = "Ok"

\* C8 as stated: after a successful index_table and a successful
\* index_table_groups, every pair stored in a group is a table of the index.
C8_GroupMembersAreTables ==
  (/\ Len(hist) = 2
   /\ hist[1].op = "index_table" /\ hist[1].result = "Ok"
   /\ hist[2].op = "index_table_groups" /\ hist[2].result = "Ok")
  => \A g \in DOMAIN table_group_map : \A pair \in table_group_map[g] :
       contains_table(self, pair[1], pair[2])

\* C8 (amended): every pair stored in a group is a table of the index,
\* unless it was written with an explicit schema qualifier, which is stored
\* as written.
C8_UnqualifiedMembersAreTables ==
  \A g \in DOMAIN table_group_map : \A pair \in table_group_map[g] :
    \/ contains_table(self, pair[1], pair[2])
    \/ \E k \in DOMAIN hist :
         /\ hist[k].op = "index_table_groups"
         /\ \E i \in DOMAIN hist[k].arg :
              /\ hist[k].arg[i].ident = g
              /\ \E n \in DOMAIN hist[k].arg[i].items :
                   LET item == hist[k].arg[i].items[n]
                   IN  item.schema # None
                       /\ pair = <<item.schema[1], item.ident_alias>>

C8_Witness ==
  /\ Len(hist) = 2
  /\ hist[1].op = "index_table" /\ hist[1].result = "Ok"
  /\ hist[2].op = "index_table_groups" /\ hist[2].result = "Ok"
  /\ Len(hist[2].arg) = 1 /\ Len(hist[2].arg[1].items) = 2
  /\ \A n \in 1..2 : hist[2].arg[1].items[n].schema = None
  /\ hist[2].arg[1].items[1].ident_alias \in DOMAIN table_alias_map
  /\ ~contains_table(self, DEFAULT_SCHEMA, hist[2].arg[1].items[1].ident_alias)
  /\ hist[2].arg[1].items[2].ident_alias \notin DOMAIN table_alias_map
  /\ Cardinality(table_group_map[hist[2].arg[1].ident]) = 2

\* C9: index_table then index_enums on a fresh index gives each call the
\* outcome, and the index the schema and alias maps, that index_enums then
\* index_table gives.
C9_EnumsTablesCommute ==
  (Len(hist) = 2 /\ hist[1].op = "index_table" /\ hist[2].op = "index_enums")
  => LET e == index_enums(Indexer_default, hist[2].arg)
         t == index_table(e.ix, hist[1].arg)
     IN  /\ e.result = hist[2].result
         /\ t.result = hist[1].result
         /\ t.ix.schema_map = schema_map
         /\ t.ix.table_alias_map = table_alias_map

\* C10: every alias of the alias map points to a table of the index.
C10_AliasTargetsExist ==
  \A a \in DOMAIN table_alias_map :
    contains_table(self, table_alias_map[a][1], table_alias_map[a][2])

C10_Witness ==
  /\ Len(hist) = 2
  /\ hist[1].op = "index_table" /\ hist[1].result = "DuplicatedColumnName"
  /\ Len(hist[1].arg) = 2 /\ hist[1].arg[1].alias # None
  /\ hist[1].arg[2].alias # None
  /\ hist[2].op = "index_table" /\ hist[2].result = "DuplicatedAlias"
  /\ Cardinality(DOMAIN table_alias_map) = 1

====
